---- MODULE Spec2Model ----
(***************************************************************************)
(* Model of cbioportal_util.py: the CaseSet class (case matrix built from  *)
(* two genetic profiles, alteration classifiers, per-gene summary) and the *)
(* main() driver.                                                          *)
(*                                                                         *)
(* Text is modelled as a tuple of one-character strings, so that int(),    *)
(* str() and the comparisons with 'NaN' and '0' work on the characters.    *)
(* A payload is the sequence of its lines, a line the sequence of its      *)
(* tab-separated cells.  A Python dict is a function on its key set.       *)
(* A raised exception is the name of its class.                            *)
(***************************************************************************)
EXTENDS Integers, Sequences, FiniteSets, TLC

VARIABLES pc, display_mode, fetched, cases, gene_meta_data, summary,
          total_case_count, error, output, runs, loaded,
          probe, cn_result, mut_result

vars == <<pc, display_mode, fetched, cases, gene_meta_data, summary,
          total_case_count, error, output, runs, loaded,
          probe, cn_result, mut_result>>

\* ------------------------------------------------------------------ bounds
MaxComments == 1
MaxRuns == 2
MaxLen == 3
MaxArgc == 5

\* ------------------------------------------------------------- vocabulary
COMMON == <<"C","O","M","M","O","N">>
GENE_ID == <<"G","E","N","E","_","I","D">>
CASE_A == <<"C","A","S","E","_","A">>
CASE_B == <<"C","A","S","E","_","B">>
TP53 == <<"T","P","5","3">>
EGFR == <<"E","G","F","R">>
NaN == <<"N","a","N">>
MUT1 == <<"M","U","T","1">>
Two == <<"2">>
Zero == <<"0">>
MinusTwo == <<"-","2">>
CommentLine == << <<"#","c","o","m","m","e","n","t">> >>

GeneIdOf(gene) == IF gene = TP53 THEN <<"7","1","5","7">> ELSE <<"1","9","5","6">>

EmptyDict == [k \in {} |-> {}]

Put(d, k, v) == [x \in (DOMAIN d) \cup {k} |-> IF x = k THEN v ELSE d[x]]

GetOrEmpty(d, k) == IF k \in DOMAIN d THEN d[k] ELSE EmptyDict

Range(s) == {s[i] : i \in 1..Len(s)}

Perms(S) == {p \in [1..Cardinality(S) -> S] : \A i, j \in 1..Cardinality(S) : p[i] = p[j] => i = j}

\* --------------------------------------------------------- class constants
genetic_profiles == <<"gbm_tcga_gistic", "gbm_tcga_mutations">>

meta_data_fields == {COMMON, GENE_ID}

\* ------------------------------------------------------------ Python text
Digits == {"0","1","2","3","4","5","6","7","8","9"}

DigitVal(c) == CASE c = "0" -> 0 [] c = "1" -> 1 [] c = "2" -> 2 [] c = "3" -> 3
                 [] c = "4" -> 4 [] c = "5" -> 5 [] c = "6" -> 6 [] c = "7" -> 7
                 [] c = "8" -> 8 [] c = "9" -> 9

RECURSIVE lstrip(_)
lstrip(s) == IF s # <<>> /\ s[1] = " " THEN lstrip(Tail(s)) ELSE s

RECURSIVE rstrip(_)
rstrip(s) == IF s # <<>> /\ s[Len(s)] = " " THEN rstrip(SubSeq(s, 1, Len(s) - 1)) ELSE s

strip(s) == rstrip(lstrip(s))

RECURSIVE DecimalValue(_, _)
DecimalValue(s, acc) == IF s = <<>> THEN acc ELSE DecimalValue(Tail(s), 10 * acc + DigitVal(s[1]))

\* the value of an optional sign and a body: one or more decimal digits, or
\* else ValueError (ok = FALSE)
signed_value(sign, body) ==
  IF body # <<>> /\ \A i \in 1..Len(body) : body[i] \in Digits
  THEN [ok |-> TRUE, val |-> (IF sign = "-" THEN 0 - 1 ELSE 1) * DecimalValue(body, 0)]
  ELSE [ok |-> FALSE, val |-> 0]

parse_stripped(s) ==
  IF s # <<>> /\ s[1] \in {"+", "-"} THEN signed_value(s[1], Tail(s))
  ELSE signed_value("+", s)

\* int(text) with a non-integer text read as 0 instead of raising
int_lenient(text) == [ok |-> TRUE, val |-> parse_stripped(strip(text)).val]

\* Python 2 int(str): surrounding blanks dropped, an optional sign, then one
\* or more decimal digits; anything else raises ValueError (ok = FALSE).
int(text) == parse_stripped(strip(text))

\* str() of a value that already is a str
str(text) == text

\* --------------------------------------------------------------- classifier
\* line 76 with the value read as a number
not_nan_or_zero_numeric(profile_result) ==
  IF profile_result = NaN \/ int(profile_result) = [ok |-> TRUE, val |-> 0]
  THEN "False" ELSE "True"

\* line 76
not_nan_or_zero(profile_result) ==
  IF profile_result = NaN \/ str(profile_result) = Zero THEN "False" ELSE "True"

\* is_mutated that reads any spelling of zero as "not mutated"
is_mutated_numeric(case, gene) ==
  IF gene \notin DOMAIN case THEN "KeyError"
  ELSE IF genetic_profiles[2] \notin DOMAIN case[gene] THEN "KeyError"
  ELSE not_nan_or_zero_numeric(case[gene][genetic_profiles[2]])

\* a missing key at case[gene][genetic_profile_id] raises KeyError
is_mutated(case, gene) ==
  IF gene \notin DOMAIN case THEN "KeyError"
  ELSE IF genetic_profiles[2] \notin DOMAIN case[gene] THEN "KeyError"
  ELSE not_nan_or_zero(case[gene][genetic_profiles[2]])

\* line 82 without the deletion call -2
amplified(parsed) ==
  IF ~parsed.ok THEN "ValueError"
  ELSE IF parsed.val \in {2} THEN "True" ELSE "False"

\* line 82, on the outcome of int(profile_result)
in_plus_minus_two(parsed) ==
  IF ~parsed.ok THEN "ValueError"
  ELSE IF parsed.val \in {2, 0 - 2} THEN "True" ELSE "False"

\* is_copy_no_altered that forgets the deletion call -2
is_copy_no_altered_amp_only(case, gene) ==
  IF gene \notin DOMAIN case THEN "KeyError"
  ELSE IF genetic_profiles[1] \notin DOMAIN case[gene] THEN "KeyError"
  ELSE amplified(int(case[gene][genetic_profiles[1]]))

\* a missing key at case[gene][genetic_profile_id] raises KeyError
is_copy_no_altered(case, gene) ==
  IF gene \notin DOMAIN case THEN "KeyError"
  ELSE IF genetic_profiles[1] \notin DOMAIN case[gene] THEN "KeyError"
  ELSE in_plus_minus_two(int(case[gene][genetic_profiles[1]]))

\* ----------------------------------------------------------- profile parser
\* line[0] of the raw line: the first character of its first cell, or the
\* tab that follows an empty first cell
first_char(line) == IF line[1] = <<>> THEN "\t" ELSE line[1][1]

\* lines 27-33: the lines left after seeking past the leading '#' lines
RECURSIVE skip_comments(_)
skip_comments(lines) ==
  IF lines = <<>> THEN lines
  ELSE IF first_char(Head(lines)) = "#" THEN skip_comments(Tail(lines))
  ELSE lines

\* csv.DictReader: the first line names the fields, every later line is a
\* dict from field name to cell
DictReader(lines) ==
  IF lines = <<>> THEN <<>>
  ELSE LET fieldnames == Head(lines) IN
       [r \in 1..(Len(lines) - 1) |->
          [f \in Range(fieldnames) |->
             lines[r + 1][CHOOSE i \in 1..Len(fieldnames) : fieldnames[i] = f]]]

\* lines 38-41: the metadata cells of the row go to gene_meta_data[gene]
add_meta(gm, row, gene) ==
  IF (DOMAIN row) \cap meta_data_fields = {} THEN gm
  ELSE Put(gm, gene,
           [f \in (DOMAIN GetOrEmpty(gm, gene)) \cup ((DOMAIN row) \cap meta_data_fields) |->
              IF f \in DOMAIN row THEN row[f] ELSE gm[gene][f]])

\* lines 45-47 for one cell: cases[field][gene][genetic_profile_id] = value
set_cell(case, gene, genetic_profile_id, value) ==
  Put(case, gene, Put(GetOrEmpty(case, gene), genetic_profile_id, value))

\* lines 42-47 with cases[field][gene] replaced by a fresh dict on every write
add_cells_overwriting(cs, row, gene, genetic_profile_id) ==
  [c \in (DOMAIN cs) \cup ((DOMAIN row) \ meta_data_fields) |->
     IF c \in DOMAIN row
     THEN Put(GetOrEmpty(cs, c), gene, Put(EmptyDict, genetic_profile_id, row[c]))
     ELSE cs[c]]

\* lines 42-47: every other cell of the row goes to the case of its column
add_cells(cs, row, gene, genetic_profile_id) ==
  [c \in (DOMAIN cs) \cup ((DOMAIN row) \ meta_data_fields) |->
     IF c \in DOMAIN row
     THEN set_cell(GetOrEmpty(cs, c), gene, genetic_profile_id, row[c])
     ELSE cs[c]]

\* lines 36-47 for one row
add_row(state, row, genetic_profile_id) ==
  [gene_meta_data |-> add_meta(state.gene_meta_data, row, row[COMMON]),
   cases |-> add_cells(state.cases, row, row[COMMON], genetic_profile_id)]

RECURSIVE add_rows(_, _, _)
add_rows(state, rows, genetic_profile_id) ==
  IF rows = <<>> THEN state
  ELSE add_rows(add_row(state, Head(rows), genetic_profile_id), Tail(rows), genetic_profile_id)

\* add_genetic_profile on the shared dicts, payload being the fetched response
add_genetic_profile(state, genetic_profile_id, payload) ==
  add_rows(state, DictReader(skip_comments(payload)), genetic_profile_id)

\* __init__: one add_genetic_profile per entry of genetic_profiles, in order
CaseSet__init__(state, payloads) ==
  add_genetic_profile(add_genetic_profile(state, genetic_profiles[1], payloads[1]),
                      genetic_profiles[2], payloads[2])

\* --------------------------------------------------------------- aggregator
NoCounts == [mutated_case_count |-> 0, copy_no_alteration_case_count |-> 0,
             multiple_alterations_case_count |-> 0, error |-> "none"]

\* the if/elif/elif of lines 93-98 with the both-altered test made first
count_branch_overlap_first(counts, cna, mut) ==
  IF cna \notin {"True", "False"} THEN [counts EXCEPT !.error = cna]
  ELSE IF mut \notin {"True", "False"} THEN [counts EXCEPT !.error = mut]
  ELSE IF cna = "True" /\ mut = "True"
       THEN [counts EXCEPT !.multiple_alterations_case_count = @ + 1,
                           !.copy_no_alteration_case_count = @ + 1,
                           !.mutated_case_count = @ + 1]
  ELSE IF cna = "True" THEN [counts EXCEPT !.copy_no_alteration_case_count = @ + 1]
  ELSE IF mut = "True" THEN [counts EXCEPT !.mutated_case_count = @ + 1]
  ELSE counts

\* the if/elif/elif of lines 93-98, cna and mut being what is_copy_no_altered
\* and is_mutated return (or raise) for the case and gene; is_mutated is only
\* looked at when is_copy_no_altered returned False
count_branch(counts, cna, mut) ==
  IF cna \notin {"True", "False"} THEN [counts EXCEPT !.error = cna]
  ELSE IF cna = "True" THEN [counts EXCEPT !.copy_no_alteration_case_count = @ + 1]
  ELSE IF mut \notin {"True", "False"} THEN [counts EXCEPT !.error = mut]
  ELSE IF mut = "True" THEN [counts EXCEPT !.mutated_case_count = @ + 1]
  ELSE IF cna = "True" /\ mut = "True"
       THEN [counts EXCEPT !.multiple_alterations_case_count = @ + 1]
  ELSE counts

\* lines 93-98: the body of the case loop
count_case(counts, case, gene) ==
  count_branch(counts, is_copy_no_altered(case, gene), is_mutated(case, gene))

\* lines 92-98: the case loop, in the dict's iteration order
RECURSIVE count_cases(_, _, _, _)
count_cases(counts, cs, gene, caseOrder) ==
  IF caseOrder = <<>> \/ counts.error # "none" THEN counts
  ELSE count_cases(count_case(counts, cs[Head(caseOrder)], gene), cs, gene, Tail(caseOrder))

\* line 103: the record stored for the gene
summary_entry(counts, total) ==
  [total_case_count |-> total,
   mutated_case_count |-> counts.mutated_case_count,
   copy_no_alteration_case_count |-> counts.copy_no_alteration_case_count,
   multiple_alterations_case_count |-> counts.multiple_alterations_case_count,
   all_altered_percent |->
     <<counts.copy_no_alteration_case_count + counts.mutated_case_count
         - counts.multiple_alterations_case_count, total>>]

\* lines 100-103 for one gene, after its case loop: the divisions raise
\* ZeroDivisionError when there is no case
summarize_gene(sm, counts, gene, total) ==
  IF counts.error # "none" THEN [counts |-> counts, summary |-> sm]
  ELSE IF total = 0
       THEN [counts |-> [counts EXCEPT !.error = "ZeroDivisionError"], summary |-> sm]
  ELSE [counts |-> counts, summary |-> Put(sm, gene, summary_entry(counts, total))]

\* lines 91-103: the gene loop; the three counters are set to 0 once, before
\* the loop (lines 86-88), and are carried from one gene to the next
RECURSIVE summarize_genes(_, _, _, _, _)
summarize_genes(acc, cs, geneOrder, caseOrder, total) ==
  IF geneOrder = <<>> \/ acc.counts.error # "none" THEN acc
  ELSE summarize_genes(
         summarize_gene(acc.summary,
                        count_cases(acc.counts, cs, Head(geneOrder), caseOrder),
                        Head(geneOrder), total),
         cs, Tail(geneOrder), caseOrder, total)

outcome(r) == [summary |-> r.summary, error |-> r.counts.error]

\* set_summary: the summary dict and the exception (or "none") it ends with
set_summary(sm, cs, gm, geneOrder, caseOrder) ==
  outcome(summarize_genes([counts |-> NoCounts, summary |-> sm], cs, geneOrder,
                          caseOrder, Cardinality(DOMAIN cs)))

\* a rate is the pair <<numerator, denominator>> of the float division
get_mutation_percent(sm, gene) ==
  <<sm[gene].mutated_case_count, sm[gene].total_case_count>>

get_copy_no_altered_percent(sm, gene) ==
  <<sm[gene].copy_no_alteration_case_count, sm[gene].total_case_count>>

get_all_altered_percent(sm, gene) ==
  <<sm[gene].copy_no_alteration_case_count + sm[gene].mutated_case_count
      - sm[gene].multiple_alterations_case_count, sm[gene].total_case_count>>

\* line 107: text number, summary function, display modes
display ==
  << [text |-> "mutated", display_modes |-> {"verbose"}],
     [text |-> "copy number altered", display_modes |-> {"verbose"}],
     [text |-> "altered", display_modes |-> {"verbose", "concise"}] >>

summary_function(i, sm, gene) ==
  CASE i = 1 -> get_mutation_percent(sm, gene)
    [] i = 2 -> get_copy_no_altered_percent(sm, gene)
    [] i = 3 -> get_all_altered_percent(sm, gene)

\* lines 111-117: the lines printed, as a set (gene, text, rate)
printed(sm, mode) ==
  {[gene |-> g, text |-> display[i].text, result |-> summary_function(i, sm, g)] :
     <<g, i>> \in {x \in (DOMAIN sm) \X (1..3) : mode \in display[x[2]].display_modes}}

\* ------------------------------------------------------- fetched responses
\* A well-formed response: leading comment lines, the header row COMMON,
\* GENE_ID and one column per case, then one row per gene.
Genes == {TP53, EGFR}

Cases == {CASE_A, CASE_B}

ColumnChoices == {<<>>, <<CASE_A>>, <<CASE_B>>, <<CASE_A, CASE_B>>}

RowChoices == {<<>>, <<TP53>>, <<EGFR>>, <<TP53, EGFR>>}

CopyNumberValues == {Two, Zero, NaN}

MutationValues == {MUT1, NaN}

Response(ncomments, columns, genes, cell) ==
  [i \in 1..ncomments |-> CommentLine]
    \o << <<COMMON, GENE_ID>> \o columns >>
    \o [r \in 1..Len(genes) |->
          <<genes[r], GeneIdOf(genes[r])>>
            \o [k \in 1..Len(columns) |-> cell[<<genes[r], columns[k]>>]]]

Responses(values) ==
  {Response(n, columns, genes, cell) :
     n \in 0..MaxComments, columns \in ColumnChoices, genes \in RowChoices,
     cell \in [Genes \X Cases -> values]}

CopyNumberResponses == Responses(CopyNumberValues)

MutationResponses == Responses(MutationValues)

\* one gene, one case: the responses of the repeated-query process
SingleCell(gene, case, value) ==
  Response(0, <<case>>, <<gene>>, [x \in Genes \X Cases |-> value])

\* the characters of the values handed to the classifiers on their own
Chars == {"0", "2", "-", "+", "N", "a", ".", " "}

Texts == UNION {[1..n -> Chars] : n \in 0..MaxLen}

Shared == [cases |-> cases, gene_meta_data |-> gene_meta_data]

\* ------------------------------------------------------------------- states
InitCommon ==
  /\ pc = "start"
  /\ display_mode = "none"
  /\ cases = EmptyDict
  /\ gene_meta_data = EmptyDict
  /\ summary = EmptyDict
  /\ total_case_count = 0
  /\ error = "none"
  /\ output = {}
  /\ runs = 0
  /\ loaded = {}

Init ==
  /\ InitCommon
  /\ fetched = <<>>
  /\ probe = EmptyDict
  /\ cn_result = "none"
  /\ mut_result = "none"

\* ------------------------------------------------------------------ actions
\* the class attributes take the dicts built
Store(built) ==
  /\ cases' = built.cases
  /\ gene_meta_data' = built.gene_meta_data

\* query = CaseSet(gene_list): both profiles fetched and added
Construct(payloads) ==
  /\ Store(CaseSet__init__(Shared, payloads))
  /\ fetched' = payloads
  /\ runs' = runs + 1
  /\ error' = "none"
  /\ output' = {}
  /\ UNCHANGED <<summary, total_case_count, loaded, probe, cn_result, mut_result>>

\* display_case_set_summary after set_summary returned or raised: the lines
\* are printed only when it returned
Displayed(r) ==
  /\ summary' = r.summary
  /\ error' = r.error
  /\ output' = IF r.error = "none" THEN printed(r.summary, display_mode) ELSE {}
  /\ pc' = IF r.error = "none" THEN "displayed" ELSE "error"

\* query.display_case_set_summary(display_mode): set_summary, then the prints
Display ==
  /\ \E geneOrder \in Perms(DOMAIN gene_meta_data), caseOrder \in Perms(DOMAIN cases) :
       Displayed(set_summary(summary, cases, gene_meta_data, geneOrder, caseOrder))
  /\ total_case_count' = Cardinality(DOMAIN cases)
  /\ UNCHANGED <<display_mode, fetched, cases, gene_meta_data, runs, loaded,
                 probe, cn_result, mut_result>>

\* main() with a wrong number of arguments: the usage text
main_usage ==
  /\ pc = "start"
  /\ \E argc \in 1..MaxArgc : argc \notin {2, 3, 4}
  /\ pc' = "usage"
  /\ UNCHANGED <<display_mode, fetched, cases, gene_meta_data, summary, total_case_count,
                 error, output, runs, loaded, probe, cn_result, mut_result>>

\* main(), lines 130-135
main_query ==
  /\ pc = "start"
  /\ \E argc \in (1..MaxArgc) \cap {2, 3, 4} :
       display_mode' = IF argc > 2 THEN "concise" ELSE "verbose"
  /\ \E p1 \in CopyNumberResponses, p2 \in MutationResponses : Construct(<<p1, p2>>)
  /\ pc' = "constructed"

\* main(), line 136
main_display ==
  /\ pc = "constructed"
  /\ Display

Next == main_usage \/ main_query \/ main_display

Spec == Init /\ [][Next]_vars

\* ------------------------------------------- repeated queries, one process
\* A process that builds one CaseSet after the other and displays each: the
\* dicts are class attributes (lines 10-13), so every CaseSet writes to the
\* same cases, gene_meta_data and summary.
new_query ==
  /\ pc \in {"start", "constructed", "displayed", "error"}
  /\ runs < MaxRuns
  /\ \E mode \in {"verbose", "concise"} : display_mode' = mode
  /\ \E gene \in Genes, case \in Cases, cn \in {Two, MinusTwo, Zero}, mut \in MutationValues :
       Construct(<<SingleCell(gene, case, cn), SingleCell(gene, case, mut)>>)
  /\ pc' = "constructed"

query_display ==
  /\ pc = "constructed"
  /\ Display

NextRuns == new_query \/ query_display

SpecRuns == Init /\ [][NextRuns]_vars

\* ------------------------------------------------ the two profiles, merged
\* add_genetic_profile called once per profile on the same dicts, in either
\* order, each on its own fetched response.
InitMerge ==
  /\ InitCommon
  /\ fetched \in CopyNumberResponses \X MutationResponses
  /\ probe = EmptyDict
  /\ cn_result = "none"
  /\ mut_result = "none"

call_add_genetic_profile(k) ==
  /\ k \notin loaded
  /\ loaded' = loaded \cup {k}
  /\ Store(add_genetic_profile(Shared, genetic_profiles[k], fetched[k]))
  /\ pc' = IF loaded' = {1, 2} THEN "constructed" ELSE "start"
  /\ UNCHANGED <<display_mode, fetched, summary, total_case_count, error, output, runs,
                 probe, cn_result, mut_result>>

NextMerge == \E k \in {1, 2} : call_add_genetic_profile(k)

SpecMerge == InitMerge /\ [][NextMerge]_vars

\* ------------------------------------------------- the classifiers, alone
\* One case holding one gene with a value under one profile only.
InitClassify ==
  /\ InitCommon
  /\ fetched = <<>>
  /\ \E k \in {1, 2}, text \in Texts :
       probe = Put(EmptyDict, TP53, Put(EmptyDict, genetic_profiles[k], text))
  /\ cn_result = "none"
  /\ mut_result = "none"

call_is_copy_no_altered ==
  /\ cn_result = "none"
  /\ cn_result' = is_copy_no_altered(probe, TP53)
  /\ UNCHANGED <<pc, display_mode, fetched, cases, gene_meta_data, summary,
                 total_case_count, error, output, runs, loaded, probe, mut_result>>

call_is_mutated ==
  /\ mut_result = "none"
  /\ mut_result' = is_mutated(probe, TP53)
  /\ UNCHANGED <<pc, display_mode, fetched, cases, gene_meta_data, summary,
                 total_case_count, error, output, runs, loaded, probe, cn_result>>

NextClassify == call_is_copy_no_altered \/ call_is_mutated

SpecClassify == InitClassify /\ [][NextClassify]_vars

\* =================================================================== claims
HasValue(c, g, k) ==
  /\ c \in DOMAIN cases
  /\ g \in DOMAIN cases[c]
  /\ genetic_profiles[k] \in DOMAIN cases[c][g]

Summarized == pc \in {"displayed", "error"}

\* C1: after set_summary, every gene's summary holds that gene's own counts:
\* copy_no_alteration_case_count is the number of cases in which the gene is
\* copy-number-altered, mutated_case_count the number of cases in which it
\* is mutated and not copy-number-altered, whatever other genes are summarized.
C1_OwnCounts ==
  pc = "displayed" =>
    \A g \in DOMAIN summary :
      /\ summary[g].copy_no_alteration_case_count =
           Cardinality({c \in DOMAIN cases : is_copy_no_altered(cases[c], g) = "True"})
      /\ summary[g].mutated_case_count =
           Cardinality({c \in DOMAIN cases :
                          /\ is_copy_no_altered(cases[c], g) = "False"
                          /\ is_mutated(cases[c], g) = "True"})

\* the scenario: copy-number TP53 CASE_A=2 CASE_B=NaN, mutation TP53
\* CASE_A=MUT1 CASE_B=NaN, behind any number of comment lines
ScenarioCopyNumber ==
  << <<COMMON, GENE_ID, CASE_A, CASE_B>>, <<TP53, GeneIdOf(TP53), Two, NaN>> >>

ScenarioMutations ==
  << <<COMMON, GENE_ID, CASE_A, CASE_B>>, <<TP53, GeneIdOf(TP53), MUT1, NaN>> >>

IsScenario ==
  /\ pc # "start"
  /\ fetched # <<>>
  /\ skip_comments(fetched[1]) = ScenarioCopyNumber
  /\ skip_comments(fetched[2]) = ScenarioMutations

\* C2 as stated: the scenario is built and summarized without error, giving
\* TP53 total 2, copy-number count 1, mutated count 0, combined rate 1/2, and
\* TP53 neither copy-number-altered nor mutated for CASE_B.
C2_ScenarioSummary ==
  (IsScenario /\ Summarized) =>
    /\ pc = "displayed"
    /\ TP53 \in DOMAIN summary
    /\ summary[TP53].total_case_count = 2
    /\ summary[TP53].copy_no_alteration_case_count = 1
    /\ summary[TP53].mutated_case_count = 0
    /\ get_all_altered_percent(summary, TP53) = <<1, 2>>
    /\ is_copy_no_altered(cases[CASE_B], TP53) = "False"
    /\ is_mutated(cases[CASE_B], TP53) = "False"

\* C2 amended: in the scenario the matrix is built with both cases, TP53 is
\* copy-number-altered and mutated for CASE_A and not mutated for CASE_B, the
\* copy-number classification of CASE_B ('NaN') raises ValueError, and the
\* summary ends in that error with no entry for TP53.
C2_ScenarioEndsInValueError ==
  IsScenario =>
    /\ DOMAIN cases = {CASE_A, CASE_B}
    /\ is_copy_no_altered(cases[CASE_A], TP53) = "True"
    /\ is_mutated(cases[CASE_A], TP53) = "True"
    /\ is_mutated(cases[CASE_B], TP53) = "False"
    /\ is_copy_no_altered(cases[CASE_B], TP53) = "ValueError"
    /\ Summarized =>
         /\ pc = "error"
         /\ error = "ValueError"
         /\ total_case_count = 2
         /\ TP53 \notin DOMAIN summary

C2_Witness == IsScenario /\ pc = "error" /\ error = "ValueError"

\* C3: a (case, gene) pair without a value under a profile kind is classified
\* as not altered for that kind, no classifier fails on it, and set_summary
\* does not end in a KeyError.
C3_MissingIsNotAltered ==
  /\ \A c \in DOMAIN cases, g \in DOMAIN gene_meta_data :
       /\ ~HasValue(c, g, 1) => is_copy_no_altered(cases[c], g) = "False"
       /\ ~HasValue(c, g, 2) => is_mutated(cases[c], g) = "False"
  /\ error # "KeyError"

\* C4: in every summary with total_case_count > 0, the mutated count and the
\* copy-number count of every gene lie between 0 and total_case_count.
C4_RatesWithinUnit ==
  \A g \in DOMAIN summary :
    summary[g].total_case_count > 0 =>
      /\ get_mutation_percent(summary, g)[1] >= 0
      /\ get_mutation_percent(summary, g)[1] <= get_mutation_percent(summary, g)[2]
      /\ get_copy_no_altered_percent(summary, g)[1] >= 0
      /\ get_copy_no_altered_percent(summary, g)[1] <= get_copy_no_altered_percent(summary, g)[2]

MergedInOrder(first, second) ==
  add_genetic_profile(
    add_genetic_profile([cases |-> EmptyDict, gene_meta_data |-> EmptyDict],
                        genetic_profiles[first], fetched[first]),
    genetic_profiles[second], fetched[second]).cases

\* C5: once both profiles are added, the case matrix is the one obtained by
\* adding copy-number then mutation, and also the one obtained by adding
\* mutation then copy-number.
C5_MergeCommutes ==
  loaded = {1, 2} =>
    /\ cases = MergedInOrder(1, 2)
    /\ cases = MergedInOrder(2, 1)

C5_Witness ==
  /\ loaded = {1, 2}
  /\ \E c \in DOMAIN cases : \E g \in DOMAIN cases[c] :
       DOMAIN cases[c][g] = {genetic_profiles[1], genetic_profiles[2]}
  /\ \E c \in DOMAIN cases : \E g \in DOMAIN cases[c] :
       DOMAIN cases[c][g] = {genetic_profiles[2]}
  /\ \E c \in DOMAIN cases : \E g \in DOMAIN cases[c] :
       DOMAIN cases[c][g] = {genetic_profiles[1]}

\* C6: summarizing a case matrix with zero cases always ends in an error,
\* whether or not there is gene metadata.
C6_NoCasesIsError ==
  (Summarized /\ DOMAIN cases = {}) => (pc = "error" /\ error = "ZeroDivisionError")

ProbeHas(k) == genetic_profiles[k] \in DOMAIN probe[TP53]

ProbeText(k) == probe[TP53][genetic_profiles[k]]

Blanks(n) == [i \in 1..n |-> " "]

Zeros(n) == [i \in 1..n |-> "0"]

\* the texts that read as the integer +2 or -2
SpellingsOfTwo ==
  {Blanks(a) \o sign \o Zeros(z) \o Two \o Blanks(b) :
     a \in 0..MaxLen, b \in 0..MaxLen, z \in 0..MaxLen, sign \in {<<>>, <<"+">>, <<"-">>}}

\* blanks, an optional sign, one or more digits, blanks
IsIntegerText(v) ==
  \E a \in 0..Len(v), b \in 0..Len(v) :
    /\ a + b < Len(v)
    /\ \A i \in 1..a : v[i] = " "
    /\ \A i \in (Len(v) - b + 1)..Len(v) : v[i] = " "
    /\ LET m == SubSeq(v, a + 1, Len(v) - b) IN
       /\ m[Len(m)] \in Digits
       /\ m[1] \in Digits \cup {"+", "-"}
       /\ \A i \in 2..Len(m) : m[i] \in Digits

\* C7: for a present copy-number value, is_copy_no_altered returns True
\* exactly for the integer texts of +2 and -2, False for every other integer
\* text, and raises ValueError for every text that is not an integer.
C7_CopyNumberRule ==
  (ProbeHas(1) /\ cn_result # "none") =>
    /\ cn_result \in {"True", "False", "ValueError"}
    /\ cn_result = "True" <=> ProbeText(1) \in SpellingsOfTwo
    /\ cn_result = "ValueError" <=> ~IsIntegerText(ProbeText(1))

C7_Witness == ProbeHas(1) /\ ProbeText(1) = MinusTwo /\ cn_result = "True"

\* a number text all of whose digits are 0: 0, 00, 0.0, -0, ...
IsZeroText(v) ==
  LET m == strip(v)
      body == IF m # <<>> /\ m[1] \in {"+", "-"} THEN Tail(m) ELSE m
  IN  /\ \E i \in 1..Len(body) : body[i] = "0"
      /\ \A i \in 1..Len(body) : body[i] \in {"0", "."}
      /\ Cardinality({i \in 1..Len(body) : body[i] = "."}) <= 1

\* C8 as stated: for a present mutation value, is_mutated returns False
\* exactly when the value is 'NaN' or any spelling of zero ('0', '0.0', '00').
C8_ZeroAfterCoercion ==
  (ProbeHas(2) /\ mut_result # "none") =>
    (mut_result = "False" <=> (ProbeText(2) = NaN \/ IsZeroText(ProbeText(2))))

\* C8 amended: for a present mutation value, is_mutated returns False exactly
\* when the value is the string 'NaN' or the one-character string '0', and
\* True for every other value, other spellings of zero included.
C8_NaNOrLiteralZero ==
  (ProbeHas(2) /\ mut_result # "none") =>
    /\ mut_result \in {"True", "False"}
    /\ mut_result = "False" <=> ProbeText(2) \in {NaN, Zero}

C8_Witness == ProbeHas(2) /\ ProbeText(2) = <<"0", ".", "0">> /\ mut_result = "True"

\* the cases and genes of the responses fetched for the CaseSet in hand
OwnCases == UNION {Range(Head(skip_comments(fetched[k]))) \ meta_data_fields : k \in {1, 2}}

OwnGenes ==
  UNION {{row[COMMON] : row \in Range(DictReader(skip_comments(fetched[k])))} : k \in {1, 2}}

\* C9: the case matrix, gene metadata and summary seen by a CaseSet hold only
\* the cases and genes of the responses fetched for it, and its
\* total_case_count is the number of its own cases.
C9_StateOwnedPerRun ==
  pc # "start" =>
    /\ DOMAIN cases \subseteq OwnCases
    /\ DOMAIN gene_meta_data \subseteq OwnGenes
    /\ DOMAIN summary \subseteq OwnGenes
    /\ pc = "displayed" => total_case_count = Cardinality(OwnCases)

\* C10: in every summary entry multiple_alterations_case_count is 0 and the
\* combined rate is the copy-number rate plus the mutation rate.
C10_NoOverlapCounted ==
  \A g \in DOMAIN summary :
    /\ summary[g].multiple_alterations_case_count = 0
    /\ get_all_altered_percent(summary, g)[1] =
         get_copy_no_altered_percent(summary, g)[1] + get_mutation_percent(summary, g)[1]
    /\ get_all_altered_percent(summary, g)[2] = get_mutation_percent(summary, g)[2]
    /\ get_all_altered_percent(summary, g)[2] = get_copy_no_altered_percent(summary, g)[2]
    /\ summary[g].all_altered_percent = get_all_altered_percent(summary, g)

C10_Witness ==
  /\ pc = "displayed"
  /\ \E g \in DOMAIN summary, c \in DOMAIN cases :
       /\ is_copy_no_altered(cases[c], g) = "True"
       /\ is_mutated(cases[c], g) = "True"

====
